---- MODULE Spec2Model ----
(***************************************************************************)
(* Model of the text-to-schema pipeline of the itinerary generator         *)
(* (src/app.py): extract_json_block, parse_extra_sections and              *)
(* normalize_daywise_schema.                                               *)
(*                                                                         *)
(* A Python str is a sequence of one-character strings.  A decoded JSON    *)
(* value is a record [t, s, n, m]: t is the Python type, s the characters  *)
(* of a str, n the number (or the length of a list), m the mapping of a    *)
(* dict (a function from its keys to values).                              *)
(***************************************************************************)
EXTENDS Integers, Sequences, FiniteSets, TLC

VARIABLES
    pc,               \* position of the caller: which call has returned
    raw_text,         \* argument of extract_json_block
    json_result,      \* what extract_json_block(raw_text) returned or raised
    fence_open,       \* an opening fence put before raw_text
    fenced_result,    \* what extract_json_block returned for the fenced text
    itinerary_text,   \* argument of parse_extra_sections
    extras,           \* what parse_extra_sections returned
    days_list,        \* arguments of normalize_daywise_schema
    days_required,
    places_dataset,
    normalized,       \* what the first call returned or raised
    renormalized,     \* what the call on its own output returned or raised
    heap,             \* the time-block objects: what each address holds
    first_out,        \* what a first call on the source objects returned
    second_out,       \* what a second call on the same objects returned
    before,           \* the heap before a caller changed a returned block
    changed           \* the call whose output the caller changed, 0 for none

vars == <<pc, raw_text, json_result, fence_open, fenced_result, itinerary_text,
          extras, days_list, days_required, places_dataset, normalized,
          renormalized, heap, first_out, second_out, before, changed>>

(***************************************************************************)
(* Bounds of the model.                                                    *)
(***************************************************************************)
MaxTextLen == 6      \* longest raw_text, in characters
MaxFencedLen == 4    \* longest text wrapped in fences
MaxTokens == 3       \* longest itinerary_text, in words
MaxEntries == 2      \* longest days_list
MaxDays == 3         \* largest days_required
MaxCatalog == 2      \* longest places_dataset

(***************************************************************************)
(* Python str operations.                                                  *)
(***************************************************************************)
QUOTE == "\""
BACKSLASH == "\\"
NEWLINE == "\n"

IsSpace(ch) == ch \in {" ", NEWLINE, "\t"}

RECURSIVE lstrip(_)
lstrip(s) == IF s # <<>> /\ IsSpace(Head(s)) THEN lstrip(Tail(s)) ELSE s

RECURSIVE rstrip(_)
rstrip(s) ==
    IF s # <<>> /\ IsSpace(s[Len(s)]) THEN rstrip(SubSeq(s, 1, Len(s) - 1)) ELSE s

\* str.strip()
strip(s) == rstrip(lstrip(s))

UpperLetters ==
    <<"A", "B", "C", "D", "E", "F", "G", "H", "I", "J", "K", "L", "M",
      "N", "O", "P", "Q", "R", "S", "T", "U", "V", "W", "X", "Y", "Z">>
LowerLetters ==
    <<"a", "b", "c", "d", "e", "f", "g", "h", "i", "j", "k", "l", "m",
      "n", "o", "p", "q", "r", "s", "t", "u", "v", "w", "x", "y", "z">>

LowerChar(ch) ==
    IF \E i \in 1..Len(UpperLetters) : UpperLetters[i] = ch
    THEN LowerLetters[CHOOSE i \in 1..Len(UpperLetters) : UpperLetters[i] = ch]
    ELSE ch

\* str.lower()
lower(s) == [i \in 1..Len(s) |-> LowerChar(s[i])]

\* pat occurs in s at position i (1-based); ci: ignoring letter case (re.I)
MatchAt(s, i, pat, ci) ==
    /\ i >= 1
    /\ i + Len(pat) - 1 <= Len(s)
    /\ \A k \in 1..Len(pat) :
          IF ci THEN LowerChar(s[i + k - 1]) = LowerChar(pat[k])
          ELSE s[i + k - 1] = pat[k]

\* str.find(pat) + 1: the first position of pat in s, 0 when there is none
find(s, pat) ==
    IF \E i \in 1..Len(s) : MatchAt(s, i, pat, FALSE)
    THEN CHOOSE i \in 1..Len(s) :
            /\ MatchAt(s, i, pat, FALSE)
            /\ \A j \in 1..(i - 1) : ~MatchAt(s, j, pat, FALSE)
    ELSE 0

\* pat in s   (the empty pat is in every s)
contains(s, pat) == pat = <<>> \/ find(s, pat) # 0

\* s[i:] with i 1-based
DropTo(s, i) == SubSeq(s, i, Len(s))

\* regex "$" without re.M: the end of s, or just before a final newline
AtDollar(s, i) ==
    \/ i = Len(s) + 1
    \/ i = Len(s) /\ s[Len(s)] = NEWLINE

(***************************************************************************)
(* extract_json_block                                                      *)
(***************************************************************************)
\* The grave accent (U+0060) cannot be written in a TLA+ string; the model's
\* texts carry "'" in its place (characters are only ever compared).
BACKTICK == "'"
FENCE == <<BACKTICK, BACKTICK, BACKTICK>>
FENCE_JSON == FENCE \o <<"j", "s", "o", "n">>

\* re.sub(r"^```json", "", text, flags=re.I)
SubOpenJson(text) ==
    IF MatchAt(text, 1, FENCE_JSON, TRUE) THEN DropTo(text, Len(FENCE_JSON) + 1)
    ELSE text

\* re.sub(r"^```", "", text, flags=re.I)
SubOpenFence(text) ==
    IF MatchAt(text, 1, FENCE, TRUE) THEN DropTo(text, Len(FENCE) + 1) ELSE text

\* re.sub(r"```$", "", text, flags=re.I): the one place the pattern can match
SubCloseFence(text) ==
    IF \E i \in 1..Len(text) : MatchAt(text, i, FENCE, TRUE) /\ AtDollar(text, i + Len(FENCE))
    THEN LET i == CHOOSE j \in 1..Len(text) :
                     MatchAt(text, j, FENCE, TRUE) /\ AtDollar(text, j + Len(FENCE))
         IN  SubSeq(text, 1, i - 1) \o DropTo(text, i + Len(FENCE))
    ELSE text

StripFences(raw) ==
    strip(SubCloseFence(strip(SubOpenFence(strip(SubOpenJson(strip(raw)))))))

Returned(span) == [ok |-> TRUE, span |-> span, err |-> ""]
Raised(msg) == [ok |-> FALSE, span |-> <<>>, err |-> msg]

ERR_EMPTY == "Empty model output"
ERR_NO_START == "No JSON start found"
ERR_UNBALANCED == "Could not extract balanced JSON"

\* the depth after a character that is neither escaped, a backslash nor a quote
DepthStepNoStrings(ch, depth, in_str) ==
    IF ch = "{" THEN depth + 1 ELSE IF ch = "}" THEN depth - 1 ELSE depth

DepthStep(ch, depth, in_str) ==
    IF ~in_str
    THEN IF ch = "{" THEN depth + 1 ELSE IF ch = "}" THEN depth - 1 ELSE depth
    ELSE depth

\* the loop reached the end of the text: the statement after the loop
ScanExhaustedPartial(text, start) == Returned(DropTo(text, start))

ScanExhausted(text, start) == Raised(ERR_UNBALANCED)

\* the loop "for i in range(start, len(text))" from position i on (1-based)
RECURSIVE Scan(_, _, _, _, _, _)
Scan(text, start, i, depth, in_str, escape) ==
    IF i > Len(text) THEN ScanExhausted(text, start)
    ELSE LET ch == text[i] IN
         IF escape THEN Scan(text, start, i + 1, depth, in_str, FALSE)
         ELSE IF ch = BACKSLASH THEN Scan(text, start, i + 1, depth, in_str, TRUE)
         ELSE IF ch = QUOTE THEN Scan(text, start, i + 1, depth, ~in_str, FALSE)
         ELSE LET d == DepthStep(ch, depth, in_str) IN
              IF ~in_str /\ ch = "}" /\ d = 0
              THEN Returned(SubSeq(text, start, i))
              ELSE Scan(text, start, i + 1, d, in_str, FALSE)

\* the span is cut out of the argument instead of the stripped text
extract_json_block_raw_slice(raw) ==
    IF raw = <<>> THEN Raised(ERR_EMPTY)
    ELSE LET text == StripFences(raw)
             start == find(text, <<"{">>)
         IN  IF start = 0 THEN Raised(ERR_NO_START)
             ELSE LET r == Scan(text, start, start, 0, FALSE, FALSE) IN
                  IF r.ok THEN Returned(SubSeq(raw, start, start + Len(r.span) - 1))
                  ELSE r

extract_json_block(raw) ==
    IF raw = <<>> THEN Raised(ERR_EMPTY)
    ELSE LET text == StripFences(raw)
             start == find(text, <<"{">>)
         IN  IF start = 0 THEN Raised(ERR_NO_START)
             ELSE Scan(text, start, start, 0, FALSE, FALSE)

(***************************************************************************)
(* Decoded JSON values (Python objects).                                   *)
(***************************************************************************)
NoMap == [k \in {} |-> 0]

None == [t |-> "NoneType", s |-> <<>>, n |-> 0, m |-> NoMap]
PyStr(s) == [t |-> "str", s |-> s, n |-> 0, m |-> NoMap]
PyInt(n) == [t |-> "int", s |-> <<>>, n |-> n, m |-> NoMap]
\* a list of n elements (only its type and its length are read)
PyList(n) == [t |-> "list", s |-> <<>>, n |-> n, m |-> NoMap]
PyDict(m) == [t |-> "dict", s |-> <<>>, n |-> 0, m |-> m]

EMPTY == PyStr(<<>>)

\* bool(v)
Truthy(v) ==
    CASE v.t = "NoneType" -> FALSE
      [] v.t = "str" -> v.s # <<>>
      [] v.t = "int" -> v.n # 0
      [] v.t = "list" -> v.n # 0
      [] v.t = "dict" -> DOMAIN v.m # {}

\* a or b
Or(a, b) == IF Truthy(a) THEN a ELSE b

isinstance_dict(v) == v.t = "dict"

\* key in d
In(d, key) == key \in DOMAIN d.m

\* d.get(key, default) of a dict d
GetOr(d, key, default) == IF key \in DOMAIN d.m THEN d.m[key] ELSE default

\* d.get(key) of a dict d
Get(d, key) == GetOr(d, key, None)

(***************************************************************************)
(* parse_extra_sections                                                    *)
(***************************************************************************)
LABEL_FAMOUS == <<"F", "a", "m", "o", "u", "s", " ", "s", "h", "o", "p", "p", "i", "n", "g">>
LABEL_PACK == <<"W", "h", "a", "t", " ", "t", "o", " ", "p", "a", "c", "k">>
LABEL_SAFETY == <<"S", "a", "f", "e", "t", "y", " ", "r", "u", "l", "e", "s">>
LABEL_TIPS == <<"E", "x", "t", "r", "a", " ", "t", "r", "a", "v", "e", "l", " ", "t", "i", "p", "s">>
LABEL_BUDGET == <<"E", "s", "t", "i", "m", "a", "t", "e", "d", " ", "t", "o", "t", "a", "l", " ", "b", "u", "d", "g", "e", "t">>
LABEL_CLOSING == <<"C", "l", "o", "s", "i", "n", "g", " ", "n", "o", "t", "e">>
OPT_RECOMMENDATIONS == <<" ", "r", "e", "c", "o", "m", "m", "e", "n", "d", "a", "t", "i", "o", "n", "s">>

SectionKeys ==
    <<"famous_shopping", "what_to_pack", "safety_rules", "extra_travel_tips",
      "estimated_total_budget", "closing_note">>

\* the dict "patterns": for each key its label, whether the label may be
\* followed by " recommendations", whether a colon must follow (":") or a colon
\* or a dash may follow ("[:\-]?"), the labels of its lookahead, and whether
\* the group is the greedy "(.*)$" instead of the lazy "(.*?)(?=(...|$))"
patterns(key) ==
    CASE key = "famous_shopping" ->
           [label |-> LABEL_FAMOUS, optional |-> OPT_RECOMMENDATIONS, colon |-> TRUE,
            stops |-> {LABEL_PACK, LABEL_SAFETY}, greedy |-> FALSE]
      [] key = "what_to_pack" ->
           [label |-> LABEL_PACK, optional |-> <<>>, colon |-> FALSE,
            stops |-> {LABEL_SAFETY, LABEL_TIPS}, greedy |-> FALSE]
      [] key = "safety_rules" ->
           [label |-> LABEL_SAFETY, optional |-> <<>>, colon |-> FALSE,
            stops |-> {LABEL_TIPS, LABEL_BUDGET}, greedy |-> FALSE]
      [] key = "extra_travel_tips" ->
           [label |-> LABEL_TIPS, optional |-> <<>>, colon |-> FALSE,
            stops |-> {LABEL_BUDGET, LABEL_CLOSING}, greedy |-> FALSE]
      [] key = "estimated_total_budget" ->
           [label |-> LABEL_BUDGET, optional |-> <<>>, colon |-> FALSE,
            stops |-> {LABEL_CLOSING}, greedy |-> FALSE]
      [] key = "closing_note" ->
           [label |-> LABEL_CLOSING, optional |-> <<>>, colon |-> FALSE,
            stops |-> {}, greedy |-> TRUE]

\* The pattern's head (label, optional words, colon or dash) matched at
\* position s: the position after it, 0 when it does not match at s.
HeadEnd(text, s, pat) ==
    IF ~MatchAt(text, s, pat.label, TRUE) THEN 0
    ELSE LET a == s + Len(pat.label)
             b == a + Len(pat.optional)
         IN  IF pat.colon
             THEN IF pat.optional # <<>> /\ MatchAt(text, a, pat.optional, TRUE)
                     /\ MatchAt(text, b, <<":">>, TRUE)
                  THEN b + 1
                  ELSE IF MatchAt(text, a, <<":">>, TRUE) THEN a + 1 ELSE 0
             ELSE IF a <= Len(text) /\ text[a] \in {":", "-"} THEN a + 1 ELSE a

\* "\s*": the first position from i on that holds no white space
RECURSIVE SkipSpaces(_, _)
SkipSpaces(text, i) ==
    IF i <= Len(text) /\ IsSpace(text[i]) THEN SkipSpaces(text, i + 1) ELSE i

\* the lookahead "(?=(A|B|$))" at position p
Lookahead(text, p, stops) ==
    \/ \E st \in stops : MatchAt(text, p, st, TRUE)
    \/ AtDollar(text, p)

\* m.group(1) of the match whose head ends before position a
Group1(text, a, pat) ==
    LET q == SkipSpaces(text, a) IN
    IF pat.greedy THEN DropTo(text, q)
    ELSE LET p == CHOOSE j \in q..(Len(text) + 1) :
                     /\ Lookahead(text, j, pat.stops)
                     /\ \A k \in q..(j - 1) : ~Lookahead(text, k, pat.stops)
         IN  SubSeq(text, q, p - 1)

\* re.search(pat, text, flags=re.I | re.S): [found, group1] of the leftmost match
search(pat, text) ==
    IF \E s \in 1..Len(text) : HeadEnd(text, s, pat) # 0
    THEN LET s == CHOOSE j \in 1..Len(text) :
                     /\ HeadEnd(text, j, pat) # 0
                     /\ \A k \in 1..(j - 1) : HeadEnd(text, k, pat) = 0
         IN  [found |-> TRUE, group1 |-> Group1(text, HeadEnd(text, s, pat), pat)]
    ELSE [found |-> FALSE, group1 |-> <<>>]

Keys(seq) == {seq[i] : i \in 1..Len(seq)}

\* a key whose pattern does not match is left out of the result
parse_extra_sections_only_matched(text) ==
    IF text = <<>> THEN PyDict([key \in Keys(SectionKeys) |-> EMPTY])
    ELSE PyDict([key \in {k \in Keys(SectionKeys) : search(patterns(k), text).found} |->
                    PyStr(strip(search(patterns(key), text).group1))])

parse_extra_sections(text) ==
    IF text = <<>> THEN PyDict([key \in Keys(SectionKeys) |-> EMPTY])
    ELSE PyDict([key \in Keys(SectionKeys) |->
                    LET m == search(patterns(key), text) IN
                    IF m.found THEN PyStr(strip(m.group1)) ELSE EMPTY])

(***************************************************************************)
(* normalize_daywise_schema                                                *)
(***************************************************************************)
\* what a call (or the processing of one entry) produced: a value, or the
\* exception it raised
Value(v) == [ok |-> TRUE, err |-> "", value |-> v]
Raise(exc) == [ok |-> FALSE, err |-> exc, value |-> <<>>]

ATTRIBUTE_ERROR == "AttributeError"

RECURSIVE Digits(_)
Digits(n) ==
    LET d == <<<<"0", "1", "2", "3", "4", "5", "6", "7", "8", "9">>[(n % 10) + 1]>> IN
    IF n < 10 THEN d ELSE Digits(n \div 10) \o d

\* str(v) of a str or an int (the text of other values is not modelled: no
\* source entry of the model carries a list or a dict as its day)
Format(v) ==
    CASE v.t = "str" -> v.s
      [] v.t = "int" -> IF v.n < 0 THEN <<"-">> \o Digits(-v.n) ELSE Digits(v.n)
      [] OTHER -> <<"?">>

\* the day number is always the position, whatever the entry carries
DayNumByPosition(i, d) == PyInt(i + 1)

\* line 206; i is the 0-based position of entry d
DayNum(i, d) ==
    IF isinstance_dict(d) /\ Truthy(Get(d, "day")) THEN Get(d, "day") ELSE PyInt(i + 1)

\* line 207, d a dict
Title(d, day_num) ==
    Or(Get(d, "title"), Or(Get(d, "day_title"), PyStr(<<"D", "a", "y", " ">> \o Format(day_num))))

\* line 210
HasTimeBlocks(d) ==
    isinstance_dict(d) /\ In(d, "morning") /\ In(d, "afternoon") /\ In(d, "evening")

\* lines 211-213: d.get(block) or {}
GivenBlock(d, block) == Or(Get(d, block), PyDict(NoMap))

\* lines 216-218, d a dict: the breakfast, lunch or dinner of the older schema
Meal(d, meal) ==
    IF isinstance_dict(Get(d, meal)) THEN Get(d, meal)
    ELSE PyDict([food |-> GetOr(d, meal, EMPTY)])

\* the morning is built from the breakfast alone
LegacyMorningFromMealOnly(d) ==
    LET breakfast == Meal(d, "breakfast") IN
    PyDict([early_place |-> Or(Get(breakfast, "early_place"), EMPTY),
            breakfast |-> Or(Get(breakfast, "food"), EMPTY),
            place_to_visit |-> Or(Get(breakfast, "place"),
                                  Or(Get(breakfast, "place_to_visit"), EMPTY)),
            duration |-> Or(Get(breakfast, "duration"), EMPTY),
            transport_to_next |-> Or(Get(breakfast, "transport_to_next"), EMPTY)])

\* lines 220-226
LegacyMorning(d) ==
    LET breakfast == Meal(d, "breakfast") IN
    PyDict([early_place |-> Or(Get(d, "early_place"), Or(Get(breakfast, "early_place"), EMPTY)),
            breakfast |-> Or(Get(breakfast, "food"), EMPTY),
            place_to_visit |-> Or(Get(breakfast, "place"),
                                  Or(Get(breakfast, "place_to_visit"),
                                     Or(Get(d, "place_to_visit"), EMPTY))),
            duration |-> Or(Get(breakfast, "duration"), EMPTY),
            transport_to_next |-> Or(Get(breakfast, "transport_to_next"), EMPTY)])

\* lines 227-232
LegacyAfternoon(d) ==
    LET lunch == Meal(d, "lunch") IN
    PyDict([lunch |-> Or(Get(lunch, "food"), EMPTY),
            place_to_visit |-> Or(Get(lunch, "place"), Or(Get(lunch, "place_to_visit"), EMPTY)),
            duration |-> Or(Get(lunch, "duration"), EMPTY),
            transport_to_next |-> Or(Get(lunch, "transport_to_next"), EMPTY)])

\* lines 233-238
LegacyEvening(d) ==
    LET dinner == Meal(d, "dinner") IN
    PyDict([dinner |-> Or(Get(dinner, "food"), EMPTY),
            place_to_visit |-> Or(Get(dinner, "place"), Or(Get(dinner, "place_to_visit"), EMPTY)),
            duration |-> Or(Get(dinner, "duration"), EMPTY),
            transport_to_next |-> Or(Get(dinner, "transport_to_next"), EMPTY)])

MorningKeys == <<"early_place", "breakfast", "place_to_visit", "duration", "transport_to_next">>
AfternoonKeys == <<"lunch", "place_to_visit", "duration", "transport_to_next">>
EveningKeys == <<"dinner", "place_to_visit", "duration", "transport_to_next">>

\* block.setdefault(key, "") for each key of keys, block a dict: a key the
\* block already has keeps its value, whatever it is
SetDefaults(block, keys) ==
    PyDict([k \in DOMAIN block.m \cup Keys(keys) |->
               IF k \in DOMAIN block.m THEN block.m[k] ELSE EMPTY])

\* str.replace(ch, "")
RECURSIVE remove(_, _)
remove(s, ch) ==
    IF s = <<>> THEN <<>>
    ELSE IF Head(s) = ch THEN remove(Tail(s), ch)
    ELSE <<Head(s)>> \o remove(Tail(s), ch)

\* line 258, for a morning whose place_to_visit is a str
MorningPlace(morning) == lower(strip(remove(GetOr(morning, "place_to_visit", EMPTY).s, "*")))

\* lines 261-265 from catalog position j on: the day_image after the loop, or
\* the exception of line 262
RECURSIVE MatchByName(_, _, _)
MatchByName(places, j, morning_place) ==
    IF j > Len(places) THEN Value(None)
    ELSE LET p == places[j]
             place == Or(Get(p, "place"), EMPTY)
         IN  IF place.t # "str" THEN Raise(ATTRIBUTE_ERROR)
             ELSE IF morning_place # <<>> /\ contains(strip(lower(place.s)), morning_place)
                  THEN Value(Get(p, "local_image"))
                  ELSE MatchByName(places, j + 1, morning_place)

\* lines 269-272 from catalog position j on: the first image that is not
\* empty, None when the loop ends without assigning day_image
RECURSIVE FirstImage(_, _)
FirstImage(places, j) ==
    IF j > Len(places) THEN None
    ELSE IF Truthy(Get(places[j], "local_image")) THEN Get(places[j], "local_image")
    ELSE FirstImage(places, j + 1)

\* lines 262-263: the test of the name loop for catalog row p
NameMatch(p, morning_place) ==
    LET place == Or(Get(p, "place"), EMPTY) IN
    /\ place.t = "str"
    /\ morning_place # <<>>
    /\ contains(strip(lower(place.s)), morning_place)

\* the image of a row matched by name is final, even when it is null
DayImageMatchAsIs(morning, places) ==
    LET found == MatchByName(places, 1, MorningPlace(morning)) IN
    IF ~found.ok THEN found
    ELSE IF \E j \in 1..Len(places) : NameMatch(places[j], MorningPlace(morning))
         THEN found
    ELSE Value(FirstImage(places, 1))

\* lines 258-272
DayImage(morning, places) ==
    LET found == MatchByName(places, 1, MorningPlace(morning)) IN
    IF ~found.ok THEN found
    ELSE IF ~Truthy(found.value)
         THEN LET first == FirstImage(places, 1) IN
              IF Truthy(first) THEN Value(first) ELSE found
    ELSE found

\* only the older key is read
DayTipsOlderKeyOnly(d) == Or(Get(d, "tips"), EMPTY)

\* line 275, d a dict
DayTips(d) == Or(Get(d, "day_tips"), Or(Get(d, "tips"), EMPTY))

\* lines 205-286: the record appended for entry d at 0-based position i, or
\* the exception raised while building it
NormalizeEntry(i, d, places) ==
    IF ~isinstance_dict(d) THEN Raise(ATTRIBUTE_ERROR)        \* d.get at line 207
    ELSE
    LET day_num == DayNum(i, d)
        title == Title(d, day_num)
        modern == HasTimeBlocks(d)
        morning0 == IF modern THEN GivenBlock(d, "morning") ELSE LegacyMorning(d)
        afternoon0 == IF modern THEN GivenBlock(d, "afternoon") ELSE LegacyAfternoon(d)
        evening0 == IF modern THEN GivenBlock(d, "evening") ELSE LegacyEvening(d)
    IN
    IF ~isinstance_dict(morning0) \/ ~isinstance_dict(afternoon0) \/ ~isinstance_dict(evening0)
    THEN Raise(ATTRIBUTE_ERROR)                               \* setdefault, lines 241-253
    ELSE
    LET morning == SetDefaults(morning0, MorningKeys)
        afternoon == SetDefaults(afternoon0, AfternoonKeys)
        evening == SetDefaults(evening0, EveningKeys)
    IN
    IF Get(morning, "place_to_visit").t # "str"
    THEN Raise(ATTRIBUTE_ERROR)                               \* replace, line 258
    ELSE
    LET day_image == DayImage(morning, places) IN
    IF ~day_image.ok THEN day_image
    ELSE Value(PyDict([day |-> day_num,
                       title |-> title,
                       morning |-> morning,
                       afternoon |-> afternoon,
                       evening |-> evening,
                       transport_note_if_long |-> Get(d, "transport_note_if_long"),
                       day_tips |-> DayTips(d),
                       day_image |-> day_image.value]))

\* the loop of line 204 from 0-based position i on, normalized holding the
\* records appended so far
RECURSIVE NormalizeFrom(_, _, _, _)
NormalizeFrom(entries, i, places, acc) ==
    IF i >= Len(entries) THEN Value(acc)
    ELSE LET r == NormalizeEntry(i, entries[i + 1], places) IN
         IF ~r.ok THEN r
         ELSE NormalizeFrom(entries, i + 1, places, Append(acc, r.value))

\* lines 291-300: the placeholder day appended when the list holds idx records
Placeholder(idx) ==
    PyDict([day |-> PyInt(idx + 1),
            title |-> PyStr(<<"D", "a", "y", " ">> \o Format(PyInt(idx + 1))),
            morning |-> PyDict([early_place |-> EMPTY,
                                breakfast |-> PyStr(<<"B", "r", "e", "a", "k", "f", "a", "s", "t", " ", "s", "u", "g", "g", "e", "s", "t", "i", "o", "n">>),
                                place_to_visit |-> PyStr(<<"*", "*", "L", "o", "c", "a", "l", "*", "*">>),
                                duration |-> PyStr(<<"1", " ", "h", "o", "u", "r">>),
                                transport_to_next |-> PyStr(<<"S", "h", "o", "r", "t", " ", "w", "a", "l", "k", ",", " ", "0", ".", "2", " ", "m", "i", ",", " ", "w", "a", "l", "k", ",", " ", "$", "0">>)]),
            afternoon |-> PyDict([lunch |-> PyStr(<<"L", "u", "n", "c", "h", " ", "s", "u", "g", "g", "e", "s", "t", "i", "o", "n">>),
                                  place_to_visit |-> PyStr(<<"*", "*", "L", "o", "c", "a", "l", "*", "*">>),
                                  duration |-> PyStr(<<"1", " ", "h", "o", "u", "r">>),
                                  transport_to_next |-> PyStr(<<"S", "h", "o", "r", "t", " ", "w", "a", "l", "k", ",", " ", "0", ".", "5", " ", "m", "i", ",", " ", "w", "a", "l", "k", ",", " ", "$", "0">>)]),
            evening |-> PyDict([dinner |-> PyStr(<<"D", "i", "n", "n", "e", "r", " ", "s", "u", "g", "g", "e", "s", "t", "i", "o", "n">>),
                                place_to_visit |-> PyStr(<<"*", "*", "L", "o", "c", "a", "l", "*", "*">>),
                                duration |-> PyStr(<<"1", "-", "2", " ", "h", "o", "u", "r", "s">>),
                                transport_to_next |-> PyStr(<<"N", "/", "A">>)]),
            transport_note_if_long |-> None,
            day_tips |-> EMPTY,
            day_image |-> None])

\* lines 289-300
RECURSIVE Pad(_, _)
Pad(acc, required) ==
    IF Len(acc) < required THEN Pad(Append(acc, Placeholder(Len(acc))), required)
    ELSE acc

\* line 303: normalized[:days_required], days_required >= 0
Truncate(acc, required) ==
    IF Len(acc) > required THEN SubSeq(acc, 1, required) ELSE acc

normalize_daywise_schema(entries, required, places) ==
    LET r == NormalizeFrom(entries, 0, places, <<>>) IN
    IF ~r.ok THEN r
    ELSE Value(Truncate(Pad(r.value, required), required))

(***************************************************************************)
(* The time blocks as objects.  A Python dict is a mutable object: every   *)
(* morning, afternoon and evening dict has an address, and the heap maps   *)
(* an address to what the dict holds now.  The other values of an entry    *)
(* (str, int, None) are immutable and stay plain values.                   *)
(***************************************************************************)
Blocks == <<"morning", "afternoon", "evening">>

\* the keys lines 241-253 set a default for, per block
SubKeys(block) ==
    CASE block = "morning" -> MorningKeys
      [] block = "afternoon" -> AfternoonKeys
      [] block = "evening" -> EveningKeys

\* the block of the entry or record at 0-based position i that owner created:
\* "source" for the decoded entries, "first" and "second" for the two calls
Address(owner, i, block) == [owner |-> owner, i |-> i, block |-> block]

Positions == 0..((IF MaxEntries > MaxDays THEN MaxEntries ELSE MaxDays) - 1)

Addresses ==
    {Address(owner, i, block) :
        owner \in {"source", "first", "second"}, i \in Positions, block \in Keys(Blocks)}

Unallocated == [t |-> "unallocated", s |-> <<>>, n |-> 0, m |-> NoMap]

\* the heap that holds no object
NoHeap == [a \in {} |-> Unallocated]

\* the heap that holds the dict blocks of the decoded entries
SourceHeap(entries) ==
    [a \in Addresses |->
        IF /\ a.owner = "source" /\ a.i < Len(entries)
           /\ isinstance_dict(entries[a.i + 1])
           /\ isinstance_dict(Get(entries[a.i + 1], a.block))
        THEN Get(entries[a.i + 1], a.block)
        ELSE Unallocated]

\* entry d of position i as it reads now: its dict blocks hold what the heap
\* holds at their addresses
Current(h, i, d) ==
    IF ~isinstance_dict(d) THEN d
    ELSE PyDict([k \in DOMAIN d.m |->
                    IF k \in Keys(Blocks) /\ isinstance_dict(d.m[k])
                    THEN h[Address("source", i, k)] ELSE d.m[k]])

\* lines 210-238: what the name morning, afternoon or evening is bound to
\* before the setdefault calls
Block0(d, block) ==
    IF HasTimeBlocks(d) THEN GivenBlock(d, block)
    ELSE CASE block = "morning" -> LegacyMorning(d)
           [] block = "afternoon" -> LegacyAfternoon(d)
           [] block = "evening" -> LegacyEvening(d)

\* lines 211-213: "d.get(block) or {}" is the entry's own object when that is
\* truthy, and a new dict otherwise; lines 220-238 always build new dicts
Aliased(d, block) == HasTimeBlocks(d) /\ Truthy(Get(d, block))

BlockAddress(owner, i, d, block) ==
    IF Aliased(d, block) THEN Address("source", i, block) ELSE Address(owner, i, block)

\* lines 241-253 reach the setdefault calls of block number k when d passed
\* line 207 and the blocks up to k are dicts
Reached(d, k) ==
    isinstance_dict(d) /\ \A j \in 1..k : isinstance_dict(Block0(d, Blocks[j]))

\* lines 280-282: the appended record holds the three objects themselves
Refs(owner, i, d) == [block \in Keys(Blocks) |-> BlockAddress(owner, i, d, block)]

\* Every pass of the loop of line 204 reads and writes the objects of its own
\* entry only, so what the call does to an object is told from the entry of
\* its position and from where the loop stops.

\* the entry of 0-based position i as the loop finds it
EntryNow(h, entries, i) == Current(h, i, entries[i + 1])

\* the position where the loop stops, looking from position i on: the first
\* whose pass raises, Len(entries) when none does
RECURSIVE Stop(_, _, _, _)
Stop(h, entries, places, i) ==
    IF i >= Len(entries) THEN Len(entries)
    ELSE IF ~NormalizeEntry(i, EntryNow(h, entries, i), places).ok THEN i
    ELSE Stop(h, entries, places, i + 1)

\* lines 241-253 for entry d of position i: the setdefault calls write into
\* object a when a is bound to a block name whose calls are reached
Writes(owner, a, i, d) ==
    \E k \in 1..Len(Blocks) : Reached(d, k) /\ a = BlockAddress(owner, i, d, Blocks[k])

\* the heap after a call that stops at position stop: the blocks of the
\* entries up to the one that raises hold their defaults (lines 241-253), and
\* when no entry raises each placeholder day holds three new dicts (lines
\* 294-296)
HeapAfter(h, owner, entries, required, stop) ==
    [a \in Addresses |->
        IF /\ a.i < Len(entries) /\ a.i <= stop
           /\ Writes(owner, a, a.i, EntryNow(h, entries, a.i))
        THEN SetDefaults(Block0(EntryNow(h, entries, a.i), a.block), SubKeys(a.block))
        ELSE IF stop = Len(entries) /\ a.owner = owner /\ Len(entries) <= a.i /\ a.i < required
        THEN Get(Placeholder(a.i), a.block)
        ELSE h[a]]

\* the exception of the call, or the block objects of each record of
\* normalized[:days_required]
ResultAfter(h, owner, entries, required, places, stop) ==
    IF stop < Len(entries)
    THEN NormalizeEntry(stop, EntryNow(h, entries, stop), places)
    ELSE Value([j \in 1..required |->
                   IF j <= Len(entries) THEN Refs(owner, j - 1, EntryNow(h, entries, j - 1))
                   ELSE [block \in Keys(Blocks) |-> Address(owner, j - 1, block)]])

\* normalize_daywise_schema on the objects: the heap after the call, and the
\* addresses of the blocks of each returned record, or the exception
normalize_objects(h, owner, entries, required, places) ==
    CHOOSE r \in {[heap |-> HeapAfter(h, owner, entries, required, stop),
                   result |-> ResultAfter(h, owner, entries, required, places, stop)] :
                     stop \in {Stop(h, entries, places, 0)}} : TRUE

(***************************************************************************)
(* Inputs.                                                                 *)
(***************************************************************************)
\* all sequences over S of length at most n
SeqsUpTo(S, n) == UNION {[1..k -> S] : k \in 0..n}

\* the characters of a raw_text: the ones the scan distinguishes, and a space
TextAlphabet == {"{", "}", QUOTE, BACKSLASH, " "}

\* opening fences with a label, in several letter cases
OpeningFences == {FENCE \o <<"j", "s", "o", "n">>, FENCE \o <<"J", "S", "O", "N">>, FENCE \o <<"J", "s", "o", "n">>}
FenceSeparators == {<<>>, <<NEWLINE>>}

\* the words an itinerary_text is made of
Words ==
    {LABEL_FAMOUS, LABEL_PACK, LABEL_SAFETY, LABEL_TIPS, LABEL_BUDGET, LABEL_CLOSING,
     <<"W", "H", "A", "T", " ", "T", "O", " ", "P", "A", "C", "K">>, OPT_RECOMMENDATIONS, <<":">>, <<"-">>, <<" ">>, <<"x">>, <<NEWLINE>>}

RECURSIVE Flatten(_)
Flatten(ws) == IF ws = <<>> THEN <<>> ELSE Head(ws) \o Flatten(Tail(ws))

\* catalog rows (place, local_image); the other columns are not read
CatalogRows ==
    {PyDict([place |-> PyStr(<<"G", "o", "a", " ", "B", "e", "a", "c", "h">>), local_image |-> PyStr(<<"a", ".", "j", "p", "g">>)]),
     PyDict([place |-> PyStr(<<" ", "G", "o", "a", " ", "F", "O", "R", "T">>), local_image |-> None]),
     PyDict([place |-> PyStr(<<"L", "o", "c", "a", "l", " ", "M", "a", "r", "k", "e", "t">>),
             local_image |-> PyStr(<<"m", ".", "j", "p", "g">>)])}

EmptyBlock == PyDict(NoMap)

\* source entries: decoded JSON values of the shapes the function tells apart
E_NOT_OBJECT == PyStr(<<"x">>)
E_EMPTY == PyDict(NoMap)
E_MODERN ==
    PyDict([day |-> PyInt(5), title |-> PyStr(<<"T", "r", "i", "p">>),
            morning |-> PyDict([place_to_visit |-> PyStr(<<"*", "*", "G", "o", "a", "*", "*">>),
                                breakfast |-> PyStr(<<"I", "d", "l", "i">>)]),
            afternoon |-> EmptyBlock, evening |-> None,
            day_tips |-> PyStr(<<"t", "i", "p">>), transport_note_if_long |-> PyStr(<<"f", "a", "r">>)])
E_MODERN_NULL_FIELD ==
    PyDict([morning |-> PyDict([place_to_visit |-> PyStr(<<"F", "o", "r", "t">>), breakfast |-> None]),
            afternoon |-> PyDict([lunch |-> None]),
            evening |-> PyDict([dinner |-> PyInt(7)])])
E_MODERN_STR_BLOCK ==
    PyDict([morning |-> PyStr(<<"x">>), afternoon |-> EmptyBlock, evening |-> EmptyBlock])
E_MODERN_NULL_PLACE ==
    PyDict([morning |-> PyDict([place_to_visit |-> None]),
            afternoon |-> EmptyBlock, evening |-> EmptyBlock])
E_LEGACY_STRINGS ==
    PyDict([day |-> PyInt(0), breakfast |-> PyStr(<<"P", "a", "n", "c", "a", "k", "e", "s">>), lunch |-> PyStr(<<"D", "a", "l">>),
            dinner |-> PyStr(<<"R", "o", "t", "i">>), tips |-> PyStr(<<"t">>)])
E_LEGACY_OBJECTS ==
    PyDict([day_title |-> PyStr(<<"U">>),
            breakfast |-> PyDict([food |-> PyStr(<<"I", "d", "l", "i">>), place |-> PyStr(<<"G", "o", "a">>),
                                  early_place |-> PyStr(<<"L", "a", "k", "e">>)]),
            lunch |-> PyDict([food |-> PyStr(<<"D", "a", "l">>), place_to_visit |-> PyStr(<<"F", "o", "r", "t">>),
                              duration |-> PyStr(<<"1", "h">>)]),
            dinner |-> PyDict([transport_to_next |-> PyStr(<<"c", "a", "b">>)]),
            place_to_visit |-> PyStr(<<"D", "e", "l", "h", "i">>)])
E_LEGACY_NUMBER_PLACE ==
    PyDict([breakfast |-> PyDict([place |-> PyInt(5)])])
E_LEGACY_PARTIAL ==
    PyDict([day |-> PyStr(<<"t", "w", "o">>), morning |-> PyDict([place_to_visit |-> PyStr(<<"G", "o", "a">>)]),
            breakfast |-> None, lunch |-> PyList(0), place_to_visit |-> PyStr(<<"D", "e", "l", "h", "i">>)])
E_LEGACY_STRINGS_PLACE ==
    PyDict([breakfast |-> PyStr(<<"P", "o", "h", "a">>), dinner |-> PyStr(<<>>),
            early_place |-> PyStr(<<"L", "a", "k", "e">>), place_to_visit |-> PyStr(<<"F", "o", "r", "t">>)])

Entries ==
    {E_NOT_OBJECT, E_EMPTY, E_MODERN, E_MODERN_NULL_FIELD, E_MODERN_STR_BLOCK,
     E_MODERN_NULL_PLACE, E_LEGACY_STRINGS, E_LEGACY_OBJECTS, E_LEGACY_NUMBER_PLACE,
     E_LEGACY_PARTIAL}

\* the entries a record is returned for: objects whose time blocks are
\* objects and whose morning place is a string
ReturningEntries ==
    {E_EMPTY, E_MODERN, E_MODERN_NULL_FIELD, E_LEGACY_STRINGS, E_LEGACY_OBJECTS,
     E_LEGACY_PARTIAL, E_LEGACY_STRINGS_PLACE}

(***************************************************************************)
(* The calls.                                                              *)
(***************************************************************************)
NotCalled == Raise("not called")
NoText == Raised("not called")

IdleExtract ==
    raw_text = <<>> /\ json_result = NoText /\ fence_open = <<>> /\ fenced_result = NoText
IdleSections == itinerary_text = <<>> /\ extras = None
IdleNormalize ==
    /\ days_list = <<>> /\ days_required = 0 /\ places_dataset = <<>>
    /\ normalized = NotCalled /\ renormalized = NotCalled

extractVars == <<raw_text, json_result, fence_open, fenced_result>>
sectionVars == <<itinerary_text, extras>>
normalizeVars == <<days_list, days_required, places_dataset, normalized, renormalized>>
objectVars == <<heap, first_out, second_out, before, changed>>

\* no time-block object exists and no call on objects was made
IdleObjects ==
    /\ heap = NoHeap /\ first_out = NotCalled /\ second_out = NotCalled
    /\ before = NoHeap /\ changed = 0

\* daywise = normalize_daywise_schema(day_entries, days, places)
Normalize ==
    /\ pc = "start"
    /\ normalized' = normalize_daywise_schema(days_list, days_required, places_dataset)
    /\ pc' = "normalized"
    /\ UNCHANGED <<days_list, days_required, places_dataset, renormalized>>
    /\ UNCHANGED <<extractVars, sectionVars, objectVars>>

\* the function called again on the list it returned
Renormalize ==
    /\ pc = "normalized"
    /\ normalized.ok
    /\ renormalized' =
          normalize_daywise_schema(normalized.value, days_required, places_dataset)
    /\ pc' = "renormalized"
    /\ UNCHANGED <<days_list, days_required, places_dataset, normalized>>
    /\ UNCHANGED <<extractVars, sectionVars, objectVars>>

Init ==
    /\ pc = "start"
    /\ days_list \in SeqsUpTo(Entries, MaxEntries)
    /\ days_required \in 0..MaxDays
    /\ places_dataset \in SeqsUpTo(CatalogRows, MaxCatalog)
    /\ normalized = NotCalled
    /\ renormalized = NotCalled
    /\ IdleExtract
    /\ IdleSections
    /\ IdleObjects

Next == Normalize \/ Renormalize

Spec == Init /\ [][Next]_vars

\* clean_json = extract_json_block(raw_text)
Extract ==
    /\ pc = "start"
    /\ json_result' = extract_json_block(raw_text)
    /\ pc' = "extracted"
    /\ UNCHANGED <<raw_text, fence_open, fenced_result>>
    /\ UNCHANGED <<sectionVars, normalizeVars, objectVars>>

\* the same text between a labelled opening fence and a bare closing fence
ExtractFenced ==
    /\ pc = "extracted"
    /\ Len(raw_text) <= MaxFencedLen
    /\ \E f \in OpeningFences, sep \in FenceSeparators :
          /\ fence_open' = f \o sep
          /\ fenced_result' = extract_json_block(f \o sep \o raw_text \o sep \o FENCE)
    /\ pc' = "fenced"
    /\ UNCHANGED <<raw_text, json_result>>
    /\ UNCHANGED <<sectionVars, normalizeVars, objectVars>>

InitExtract ==
    /\ pc = "start"
    /\ raw_text \in SeqsUpTo(TextAlphabet, MaxTextLen)
                   \cup SeqsUpTo(TextAlphabet \cup {BACKTICK}, MaxFencedLen)
    /\ json_result = NoText
    /\ fence_open = <<>>
    /\ fenced_result = NoText
    /\ IdleSections
    /\ IdleNormalize
    /\ IdleObjects

NextExtract == Extract \/ ExtractFenced

SpecExtract == InitExtract /\ [][NextExtract]_vars

\* parse_extra_sections(itinerary_text)
ParseExtras ==
    /\ pc = "start"
    /\ extras' = parse_extra_sections(itinerary_text)
    /\ pc' = "parsed"
    /\ UNCHANGED itinerary_text
    /\ UNCHANGED <<extractVars, normalizeVars, objectVars>>

InitSections ==
    /\ pc = "start"
    /\ itinerary_text \in {Flatten(ws) : ws \in SeqsUpTo(Words, MaxTokens)}
    /\ extras = None
    /\ IdleExtract
    /\ IdleNormalize
    /\ IdleObjects

NextSections == ParseExtras

SpecSections == InitSections /\ [][NextSections]_vars

\* calls that return: every record of the result can be looked at
InitRecords ==
    /\ pc = "start"
    /\ days_list \in SeqsUpTo(ReturningEntries, MaxEntries)
    /\ days_required \in 0..MaxDays
    /\ places_dataset \in SeqsUpTo(CatalogRows, MaxCatalog)
    /\ normalized = NotCalled
    /\ renormalized = NotCalled
    /\ IdleExtract
    /\ IdleSections
    /\ IdleObjects

NextRecords == Normalize

SpecRecords == InitRecords /\ [][NextRecords]_vars

\* daywise = normalize_daywise_schema(day_entries, days, places), the entries
\* being objects
FirstCall ==
    /\ pc = "start"
    /\ \E r \in {normalize_objects(heap, "first", days_list, days_required, places_dataset)} :
          heap' = r.heap /\ first_out' = r.result
    /\ pc' = "first"
    /\ UNCHANGED <<second_out, before, changed>>
    /\ UNCHANGED <<days_list, days_required, places_dataset, normalized, renormalized>>
    /\ UNCHANGED <<extractVars, sectionVars>>

\* a second call on the same entries and catalog
SecondCall ==
    /\ pc = "first"
    /\ first_out.ok
    /\ \E r \in {normalize_objects(heap, "second", days_list, days_required, places_dataset)} :
          heap' = r.heap /\ second_out' = r.result
    /\ pc' = "second"
    /\ UNCHANGED <<first_out, before, changed>>
    /\ UNCHANGED <<days_list, days_required, places_dataset, normalized, renormalized>>
    /\ UNCHANGED <<extractVars, sectionVars>>

\* the caller writes a sub-field of a time block of one of the two outputs:
\* out[i][block]["duration"] = "changed"
ChangeBlock ==
    /\ pc = "second"
    /\ second_out.ok
    /\ \E c \in {1, 2}, i \in 1..Len(second_out.value), block \in Keys(Blocks) :
          LET out == IF c = 1 THEN first_out ELSE second_out
              a == out.value[i][block]
          IN  /\ heap' = [heap EXCEPT ![a] =
                             PyDict([k \in DOMAIN heap[a].m \cup {"duration"} |->
                                        IF k = "duration" THEN PyStr(<<"c", "h", "a", "n", "g", "e", "d">>)
                                        ELSE heap[a].m[k]])]
              /\ changed' = c
    /\ before' = heap
    /\ pc' = "changed"
    /\ UNCHANGED <<first_out, second_out>>
    /\ UNCHANGED <<days_list, days_required, places_dataset, normalized, renormalized>>
    /\ UNCHANGED <<extractVars, sectionVars>>

\* the catalog plays no part in what is shared: short catalogs are enough
InitObjects ==
    /\ pc = "start"
    /\ days_list \in SeqsUpTo(Entries, MaxEntries)
    /\ days_required \in 0..MaxDays
    /\ places_dataset \in {<<>>} \cup {<<row>> : row \in CatalogRows}
    /\ normalized = NotCalled
    /\ renormalized = NotCalled
    /\ heap = SourceHeap(days_list)
    /\ first_out = NotCalled
    /\ second_out = NotCalled
    /\ before = NoHeap
    /\ changed = 0
    /\ IdleExtract
    /\ IdleSections

NextObjects == FirstCall \/ SecondCall \/ ChangeBlock

SpecObjects == InitObjects /\ [][NextObjects]_vars

(***************************************************************************)
(* Properties of normalize_daywise_schema (specification Spec).            *)
(***************************************************************************)
Called == pc \in {"normalized", "renormalized"}

\* the number of records the loop over the source entries produced that the
\* result keeps
Kept == IF Len(days_list) < days_required THEN Len(days_list) ELSE days_required

\* some row of the catalog carries an image reference that is not null
HasImage(places) == \E j \in 1..Len(places) : Get(places[j], "local_image") # None

BlockKeys ==
    [morning |-> Keys(MorningKeys), afternoon |-> Keys(AfternoonKeys),
     evening |-> Keys(EveningKeys)]

\* C1: for every required count N >= 0, every list of source entries and every
\* catalog, the call returns a list of exactly N day records.
C1_ExactlyN ==
    Called => normalized.ok /\ Len(normalized.value) = days_required

\* C2: the call never fails: whatever decoded JSON values the source entries
\* and their fields are, it returns a result and raises no exception.
C2_NeverFails ==
    Called => normalized.err = ""

\* C3: in every returned record each sub-field of morning, afternoon and
\* evening is present and is a string, never null, also when the source
\* entry's own block carries the key with a null value.
C3_SubFieldsAreStrings ==
    Called /\ normalized.ok =>
        \A i \in 1..Len(normalized.value) :
            \A block \in DOMAIN BlockKeys :
                \A key \in BlockKeys[block] :
                    /\ In(Get(normalized.value[i], block), key)
                    /\ Get(Get(normalized.value[i], block), key).t = "str"

\* C4 as stated: the call on its own output, with the same count and catalog,
\* returns a list equal to that output, day_image and placeholder days included.
C4_Idempotent ==
    pc = "renormalized" => renormalized = normalized

WithoutImage(record) == [k \in DOMAIN record.m \ {"day_image"} |-> record.m[k]]

\* C4 as amended: the call on its own output returns a list of the same length
\* whose records equal the output's in every field but day_image; day_image is
\* equal too for every record that comes from a source entry, and for every
\* record when no row of the catalog carries an image reference.  (A placeholder day is returned with
\* day_image null, and gets an image of the catalog when it is normalized again.)
C4_IdempotentButPlaceholderImage ==
    pc = "renormalized" =>
        /\ renormalized.ok
        /\ Len(renormalized.value) = Len(normalized.value)
        /\ \A i \in 1..Len(normalized.value) :
              /\ WithoutImage(renormalized.value[i]) = WithoutImage(normalized.value[i])
              /\ i <= Kept \/ ~HasImage(places_dataset) =>
                    renormalized.value[i] = normalized.value[i]

\* C4's case: source entries (one with the older tips key), placeholder days
\* appended after them, and a catalog with an image, normalized twice.
C4_Witness ==
    /\ pc = "renormalized"
    /\ 0 < Len(days_list) /\ Len(days_list) < days_required
    /\ \E i \in 1..Len(days_list) : In(days_list[i], "tips")
    /\ HasImage(places_dataset)
    /\ Get(renormalized.value[days_required], "day_image") # None

\* the day the code gives the record at 1-based position i
ExpectedDay(i) ==
    IF i <= Len(days_list) /\ "day" \in DOMAIN days_list[i].m /\ Truthy(days_list[i].m["day"])
    THEN days_list[i].m["day"]
    ELSE PyInt(i)

\* C5 as stated: the record at position i (0-based) has day = i+1, whatever
\* day values the source entries carry.
C5_DaysArePositions ==
    Called /\ normalized.ok =>
        \A i \in 1..Len(normalized.value) : Get(normalized.value[i], "day") = PyInt(i)

\* C5 as amended: the record at position i (0-based) has the day value of its
\* source entry when that entry carries one that is truthy, and i+1 otherwise;
\* every appended placeholder day has day = i+1.
C5_DaysAreOwnOrPositions ==
    Called /\ normalized.ok =>
        \A i \in 1..Len(normalized.value) :
            Get(normalized.value[i], "day") = ExpectedDay(i)

\* C5's case: a source entry carrying a day other than its position, an entry
\* carrying a falsy day, and a placeholder day appended after them.
C5_Witness ==
    /\ Called /\ normalized.ok
    /\ Len(days_list) < days_required
    /\ \E i \in 1..Len(days_list) :
          In(days_list[i], "day") /\ Truthy(Get(days_list[i], "day"))
          /\ Get(days_list[i], "day") # PyInt(i)
    /\ \E i \in 1..Len(days_list) :
          In(days_list[i], "day") /\ ~Truthy(Get(days_list[i], "day"))

(***************************************************************************)
(* Properties of extract_json_block (specification SpecExtract).  The      *)
(* structure of a text is stated here position by position, apart from the *)
(* loop of the function.                                                   *)
(***************************************************************************)
\* the text the scan runs over, and the position of its first "{" (0: none)
Stripped == StripFences(raw_text)
Start == find(Stripped, <<"{">>)

\* position j follows a backslash that is not itself escaped
RECURSIVE Escaped(_, _, _)
Escaped(text, start, j) ==
    j > start /\ text[j - 1] = BACKSLASH /\ ~Escaped(text, start, j - 1)

UnescapedQuote(text, start, j) == text[j] = QUOTE /\ ~Escaped(text, start, j)

\* position j lies inside a double-quoted string opened at or after start
InString(text, start, j) ==
    Cardinality({k \in start..(j - 1) : UnescapedQuote(text, start, k)}) % 2 = 1

\* a brace ch at position j that is neither escaped nor inside a string
Structural(text, start, j, ch) ==
    text[j] = ch /\ ~Escaped(text, start, j) /\ ~InString(text, start, j)

DepthAt(text, start, j) ==
    Cardinality({k \in start..j : Structural(text, start, k, "{")})
    - Cardinality({k \in start..j : Structural(text, start, k, "}")})

\* a "}" outside strings at which the depth is back to zero
Closes(text, start, j) ==
    Structural(text, start, j, "}") /\ DepthAt(text, start, j) = 0

Closing(text, start) == {j \in start..Len(text) : Closes(text, start, j)}

FirstClosing(text, start) ==
    CHOOSE j \in Closing(text, start) : \A k \in Closing(text, start) : j <= k

C7_BlankIsEmptyInput ==
    pc # "start" /\ strip(raw_text) = <<>> => json_result = Raised(ERR_EMPTY)

\* C8: when the text has a "{" and the depth never comes back to zero after it
\* (an unclosed object, or an unterminated string hiding the closing brace),
\* the function fails with the unbalanced-object error and returns no span.
C8_UnbalancedIsAnError ==
    pc # "start" /\ Start # 0 /\ Closing(Stripped, Start) = {} =>
        /\ ~json_result.ok
        /\ json_result.span = <<>>
        /\ json_result.err = ERR_UNBALANCED

\* C8's case: a closing brace hidden by a string that never ends.
C8_Witness ==
    /\ pc # "start" /\ json_result.err = ERR_UNBALANCED
    /\ \E k \in 1..Len(Stripped) :
          /\ k > Start /\ Stripped[k] = "}"
          /\ InString(Stripped, Start, k)
    /\ InString(Stripped, Start, Len(Stripped) + 1)

\* C10: for every text from which the function returns a span, the text made
\* of a labelled opening fence (any letter case), that text and a bare closing
\* fence yields the same span.
C10_FencesChangeNothing ==
    pc = "fenced" /\ json_result.ok => fenced_result = json_result

\* C10's case: a span extracted from a text with prose around it, and from the
\* same text under an upper-case label.
C10_Witness ==
    /\ pc = "fenced" /\ json_result.ok
    /\ Len(json_result.span) < Len(strip(raw_text))
    /\ MatchAt(fence_open, 1, FENCE \o <<"J">>, FALSE)
    /\ fenced_result.ok

(***************************************************************************)
(* Properties of parse_extra_sections (specification SpecSections).        *)
(***************************************************************************)
\* C9: for every text, the empty one and one with none of the labels included,
\* the result is a mapping whose keys are exactly the six section keys, each
\* value a string.
C9_AllSixKeys ==
    pc = "parsed" =>
        /\ extras.t = "dict"
        /\ DOMAIN extras.m =
              {"famous_shopping", "what_to_pack", "safety_rules", "extra_travel_tips",
               "estimated_total_budget", "closing_note"}
        /\ \A key \in DOMAIN extras.m : extras.m[key].t = "str"

\* C9's case: a text that is not empty, holds the label of one section with
\* text after it and no label of the others.
C9_Witness ==
    /\ pc = "parsed"
    /\ itinerary_text # <<>>
    /\ extras.m["what_to_pack"] # EMPTY
    /\ \A key \in DOMAIN extras.m \ {"what_to_pack"} :
          /\ extras.m[key] = EMPTY
          /\ \A s \in 1..Len(itinerary_text) :
                ~MatchAt(itinerary_text, s, patterns(key).label, TRUE)

(***************************************************************************)
(* Properties of normalize_daywise_schema on objects (SpecObjects).        *)
(***************************************************************************)
\* the addresses of the dict blocks of the source entries
SourceAddresses ==
    {a \in Addresses : a.owner = "source" /\ SourceHeap(days_list)[a] # Unallocated}

\* the addresses of the blocks of the records a call returned
BlocksOf(out) ==
    {out.value[i][block] : i \in 1..Len(out.value), block \in Keys(Blocks)}

\* the source entries hold what they held before the calls
SourceUnchanged == \A a \in SourceAddresses : heap[a] = SourceHeap(days_list)[a]

\* the two outputs hold no object of each other or of the source
NothingShared ==
    /\ BlocksOf(first_out) \cap BlocksOf(second_out) = {}
    /\ (BlocksOf(first_out) \cup BlocksOf(second_out)) \cap SourceAddresses = {}

\* the change of a block of one output left the other output and the source
\* as they were
ChangeIsLocal ==
    LET other == IF changed = 1 THEN second_out ELSE first_out IN
    \A a \in BlocksOf(other) \cup SourceAddresses : heap[a] = before[a]

\* C11: after one call the source entries, their morning, afternoon and
\* evening objects included, are unchanged; the outputs of two calls on the
\* same entries and catalog share no object with each other or with the
\* source; and after a time block of one output is changed, the other output
\* and the source are as before.
C11_NoSharedObjects ==
    /\ pc = "first" => SourceUnchanged
    /\ pc = "second" /\ second_out.ok => SourceUnchanged /\ NothingShared
    /\ pc = "changed" => ChangeIsLocal

(***************************************************************************)
(* day_image (specification SpecRecords).                                  *)
(***************************************************************************)
Least(S) == CHOOSE x \in S : \A y \in S : x <= y

\* the record returned for the source entry of 1-based position i
RecordOf(i) == normalized.value[i]

\* its morning.place_to_visit without asterisks, trimmed and lower-cased
NameOf(i) == MorningPlace(Get(RecordOf(i), "morning"))

ImageOf(j) == Get(places_dataset[j], "local_image")

PlaceOf(j) == strip(lower(Or(Get(places_dataset[j], "place"), EMPTY).s))

\* the catalog rows whose place contains the name of record i
Containing(i) == {j \in 1..Len(places_dataset) : contains(PlaceOf(j), NameOf(i))}

\* the same for a name that is not empty: the rows the name loop stops at
Matching(i) == {j \in 1..Len(places_dataset) : NameMatch(places_dataset[j], NameOf(i))}

NotNullImages == {j \in 1..Len(places_dataset) : ImageOf(j) # None}

TruthyImages == {j \in 1..Len(places_dataset) : Truthy(ImageOf(j))}

\* C12: for every source entry, day_image is the image reference of the first
\* catalog row whose lower-cased trimmed place contains the normalized
\* morning.place_to_visit, taken as it is even when it is null; the first row
\* with a non-null image is used only when no row matches by name; day_image
\* is null when the catalog is empty or has no image.
C12_ImageOfFirstMatch ==
    Called /\ normalized.ok =>
        \A i \in 1..Kept :
            Get(RecordOf(i), "day_image") =
                IF Containing(i) # {} THEN ImageOf(Least(Containing(i)))
                ELSE IF NotNullImages # {} THEN ImageOf(Least(NotNullImages))
                ELSE None

\* C12 (amended): for every source entry, day_image is the image reference
\* of the first catalog row whose place contains the non-empty normalized
\* morning.place_to_visit, when that reference is not null or empty;
\* otherwise (no row matches, the name is empty, or the matched row has no
\* image) it is the first non-empty image reference of the catalog; when the
\* catalog has none, it is the matched row's own reference, and null when no
\* row matched.
C12_ImageOfFirstMatchOrFirstImage ==
    Called /\ normalized.ok =>
        \A i \in 1..Kept :
            LET matching == Matching(i) IN
            Get(RecordOf(i), "day_image") =
                IF matching # {} /\ Truthy(ImageOf(Least(matching)))
                THEN ImageOf(Least(matching))
                ELSE IF TruthyImages # {} THEN ImageOf(Least(TruthyImages))
                ELSE IF matching # {} THEN ImageOf(Least(matching))
                ELSE None

\* a returned record whose name matched a row without image and that got the
\* image of another row
C12_Witness ==
    /\ Called /\ normalized.ok
    /\ \E i \in 1..Kept :
          /\ Matching(i) # {}
          /\ ImageOf(Least(Matching(i))) = None
          /\ Get(RecordOf(i), "day_image") # None

(***************************************************************************)
(* The section values (specification SpecSections).                        *)
(***************************************************************************)
\* the label phrase of the section of number k in the fixed order
LabelOf(k) == patterns(SectionKeys[k]).label

\* the first position of the label of section k in the text, any letter
\* case, 0 when it does not occur
LabelAt(text, k) ==
    IF \E s \in 1..Len(text) : MatchAt(text, s, LabelOf(k), TRUE)
    THEN Least({s \in 1..Len(text) : MatchAt(text, s, LabelOf(k), TRUE)})
    ELSE 0

\* the position after the label at s, its optional words and one colon or dash
AfterLabel(text, k, s) ==
    LET a == s + Len(LabelOf(k))
        optional == patterns(SectionKeys[k]).optional
        b == IF optional # <<>> /\ MatchAt(text, a, optional, TRUE) THEN a + Len(optional) ELSE a
    IN  IF b <= Len(text) /\ text[b] \in {":", "-"} THEN b + 1 ELSE b

\* the first position from a on where the label of a section later than k in
\* the fixed order starts, the end of the text when there is none
NextLabel(text, k, a) ==
    Least({p \in a..(Len(text) + 1) :
              \/ p = Len(text) + 1
              \/ \E j \in (k + 1)..Len(SectionKeys) : MatchAt(text, p, LabelOf(j), TRUE)})

\* C13: for each of the six section keys whose label phrase occurs in the
\* text (any letter case, followed or not by a colon or a dash), the value of
\* the key is the trimmed text between the label and the next label phrase of
\* a later section that occurs after it, or the end of the text when none
\* occurs, whichever sections are absent in between.
C13_ValueStopsAtNextLabel ==
    pc = "parsed" =>
        \A k \in 1..Len(SectionKeys) :
            LET s == LabelAt(itinerary_text, k)
                a == AfterLabel(itinerary_text, k, s)
            IN  s # 0 =>
                  extras.m[SectionKeys[k]] =
                     PyStr(strip(SubSeq(itinerary_text, a, NextLabel(itinerary_text, k, a) - 1)))

(***************************************************************************)
(* Bare-string meals of the older schema (specification SpecRecords).      *)
(***************************************************************************)
\* the source entry of 1-based position i is an object of the older schema
Legacy(i) == isinstance_dict(days_list[i]) /\ ~HasTimeBlocks(days_list[i])

\* its breakfast, lunch or dinner is a bare string
BareString(i, meal) == Get(days_list[i], meal).t = "str"

\* a time block that holds the meal and nothing else
MealOnly(meal, keys, s) == PyDict([k \in Keys(keys) |-> IF k = meal THEN s ELSE EMPTY])

\* C14: for a source entry that does not expose all three of morning,
\* afternoon and evening and whose breakfast (lunch, dinner) is a bare string
\* s, the record has morning.breakfast (afternoon.lunch, evening.dinner) equal
\* to s and every other sub-field of that time block equal to "".
C14_BareMealAndNothingElse ==
    Called /\ normalized.ok =>
        \A i \in 1..Kept :
            Legacy(i) =>
                /\ BareString(i, "breakfast") =>
                      Get(RecordOf(i), "morning") =
                         MealOnly("breakfast", MorningKeys, Get(days_list[i], "breakfast"))
                /\ BareString(i, "lunch") =>
                      Get(RecordOf(i), "afternoon") =
                         MealOnly("lunch", AfternoonKeys, Get(days_list[i], "lunch"))
                /\ BareString(i, "dinner") =>
                      Get(RecordOf(i), "evening") =
                         MealOnly("dinner", EveningKeys, Get(days_list[i], "dinner"))

\* C14 (amended): as C14 for lunch and dinner; for a bare-string breakfast s,
\* morning.breakfast = s, duration and transport_to_next are "", and
\* early_place and place_to_visit are the entry's own top-level early_place
\* and place_to_visit when these are truthy, "" otherwise.
C14_BareMealAndOwnPlaces ==
    Called /\ normalized.ok =>
        \A i \in 1..Kept :
            Legacy(i) =>
                /\ BareString(i, "breakfast") =>
                      Get(RecordOf(i), "morning") =
                         PyDict([early_place |-> Or(Get(days_list[i], "early_place"), EMPTY),
                                 breakfast |-> Get(days_list[i], "breakfast"),
                                 place_to_visit |-> Or(Get(days_list[i], "place_to_visit"), EMPTY),
                                 duration |-> EMPTY,
                                 transport_to_next |-> EMPTY])
                /\ BareString(i, "lunch") =>
                      Get(RecordOf(i), "afternoon") =
                         MealOnly("lunch", AfternoonKeys, Get(days_list[i], "lunch"))
                /\ BareString(i, "dinner") =>
                      Get(RecordOf(i), "evening") =
                         MealOnly("dinner", EveningKeys, Get(days_list[i], "dinner"))

\* a returned record of an entry with a bare-string breakfast and a place of
\* its own, and one of an entry with a bare-string lunch
C14_Witness ==
    /\ Called /\ normalized.ok
    /\ \E i \in 1..Kept :
          /\ Legacy(i) /\ BareString(i, "breakfast")
          /\ Truthy(Get(days_list[i], "place_to_visit"))
          /\ Get(Get(RecordOf(i), "morning"), "place_to_visit") = Get(days_list[i], "place_to_visit")
    /\ \E i \in 1..Kept :
          /\ Legacy(i) /\ BareString(i, "lunch")
          /\ Get(Get(RecordOf(i), "afternoon"), "lunch") = Get(days_list[i], "lunch")

====
